---- MODULE Spec2Model ----
(***************************************************************************)
(* A model of bs83bdis.py, the Holtek BS83B08A-3 disassembler: the         *)
(* instruction decoder (Disassembler._decode_word and Instruction), the    *)
(* label pass (_assign_labels), the memory location lookup and the         *)
(* formatter (_format_instruction, generate_output).                       *)
(*                                                                         *)
(* Text is modelled structurally: the output is the sequence of its lines  *)
(* (every write of the formatter ends in a newline), and a line is the     *)
(* sequence of its tab-separated fields.                                   *)
(***************************************************************************)
EXTENDS Integers, Sequences, FiniteSets, TLC

\* ---------------------------------------------------------------- constants

CODE_ADDRESS_START == 0
CODE_ADDRESS_END == 2047
CODE_FILE_MAX_SIZE == 4096

\* struct.unpack('<%dH'): every loaded word is an unsigned 16-bit value.
WordBits == 16
Words == 0 .. (2 ^ WordBits - 1)

\* A value that is a string or Python's None is a sequence of at most one
\* string: None is the empty sequence and the string s is Some(s), so that no
\* string, 'None' and '' included, is taken for None.
None == << >>
Some(s) == <<s>>

\* The truth value Python gives a string or None (`if opcode_name:`,
\* `not self.name`, `not result`): false for None and for ''.
Truthy(value) == value # None /\ value[1] # ""

\* None as the value of an operand (an integer).
NoOperand == -1

Format == {"SPECIAL", "M2A", "A2M", "LITERAL", "ADDRESS", "BIT", "MEMORY", "INVALID"}

\* ------------------------------------------------------------- bit operators

\* a & b on non-negative integers, bit by bit.
RECURSIVE AndBits(_, _)
AndBits(a, b) ==
    IF a = 0 \/ b = 0 THEN 0
    ELSE (IF a % 2 = 1 /\ b % 2 = 1 THEN 1 ELSE 0) + 2 * AndBits(a \div 2, b \div 2)

\* The same on two hexadecimal digits, tabulated.
NibbleAnd == [x \in 0 .. 15 |-> [y \in 0 .. 15 |-> AndBits(x, y)]]

\* a & b on non-negative integers, one hexadecimal digit at a time.
RECURSIVE BitAnd(_, _)
BitAnd(a, b) ==
    IF a = 0 \/ b = 0 THEN 0
    ELSE NibbleAnd[a % 16][b % 16] + 16 * BitAnd(a \div 16, b \div 16)

\* a >> n on non-negative integers.
ShiftRight(a, n) == a \div (2 ^ n)

\* dict.get(key, None)
Get(table, key) == IF key \in DOMAIN table THEN Some(table[key]) ELSE None

\* -------------------------------------------------------------- opcode tables

SPECIAL_MASK == \b1111111111111000
SPECIAL_MARK == \b0000000000000000
SPECIAL_LIST == \b0000000000000111
SPECIAL_OPCODES ==
    (\b0000000000000000 :> "NOP") @@
    (\b0000000000000001 :> "CLR WDT1") @@
    (\b0000000000000010 :> "HALT") @@
    (\b0000000000000011 :> "RET") @@
    (\b0000000000000100 :> "RETI") @@
    (\b0000000000000101 :> "CLR WDT2")

BIT_MASK == \b1011000000000000
BIT_MARK == \b0011000000000000
BIT_LIST == \b0011110000000000
BIT_OPCODES ==
    (\b0011000000000000 :> "SET") @@
    (\b0011010000000000 :> "CLR") @@
    (\b0011100000000000 :> "SNZ") @@
    (\b0011110000000000 :> "SZ")

ADDRESS_MASK == \b1111000000000000
ADDRESS_MARK == \b0010000000000000
ADDRESS_LIST == \b1111100000000000
ADDRESS_OPCODES ==
    (\b0010000000000000 :> "CALL") @@
    (\b0010100000000000 :> "JMP")

LITERAL_MASK == \b1000100000000000
LITERAL_MARK == \b0000100000000000
LITERAL_LIST == \b0000111100000000
LITERAL_OPCODES ==
    (\b0000100100000000 :> "RET") @@
    (\b0000101000000000 :> "SUB") @@
    (\b0000101100000000 :> "ADD") @@
    (\b0000110000000000 :> "XOR") @@
    (\b0000110100000000 :> "OR") @@
    (\b0000111000000000 :> "AND") @@
    (\b0000111100000000 :> "MOV")

M2A_MASK == \b1001111110000000
M2A_MARK == \b0000000010000000
M2A_LIST == \b0001111110000000
M2A_OPCODES ==
    (\b0000000010000000 :> "MOV")

OTHER_OPCODES_MASK == \b1001111110000000
OTHER_OPCODES ==
    (\b0000000010000000 :> <<"M2A", "MOV">>) @@
    (\b0000000100000000 :> <<"MEMORY", "CPLA">>) @@
    (\b0000000110000000 :> <<"MEMORY", "CPL">>) @@
    (\b0000001000000000 :> <<"A2M", "SUB">>) @@
    (\b0000001010000000 :> <<"A2M", "SUBM">>) @@
    (\b0000001100000000 :> <<"A2M", "ADD">>) @@
    (\b0000001110000000 :> <<"A2M", "ADDM">>) @@
    (\b0000010000000000 :> <<"A2M", "XOR">>) @@
    (\b0000010010000000 :> <<"A2M", "XORM">>) @@
    (\b0000010100000000 :> <<"A2M", "OR">>) @@
    (\b0000010110000000 :> <<"A2M", "ORM">>) @@
    (\b0000011000000000 :> <<"A2M", "AND">>) @@
    (\b0000011010000000 :> <<"A2M", "ANDM">>) @@
    (\b0000011100000000 :> <<"A2M", "MOV">>) @@
    (\b0001000000000000 :> <<"MEMORY", "SZA">>) @@
    (\b0001000010000000 :> <<"MEMORY", "SZ">>) @@
    (\b0001000100000000 :> <<"MEMORY", "SWAPA">>) @@
    (\b0001000110000000 :> <<"MEMORY", "SWAP">>) @@
    (\b0001001000000000 :> <<"A2M", "SBC">>) @@
    (\b0001001010000000 :> <<"A2M", "SBCM">>) @@
    (\b0001001100000000 :> <<"A2M", "ADC">>) @@
    (\b0001001110000000 :> <<"A2M", "ADCM">>) @@
    (\b0001010000000000 :> <<"MEMORY", "INCA">>) @@
    (\b0001010010000000 :> <<"MEMORY", "INC">>) @@
    (\b0001010100000000 :> <<"MEMORY", "DECA">>) @@
    (\b0001010110000000 :> <<"MEMORY", "DEC">>) @@
    (\b0001011000000000 :> <<"MEMORY", "SIZA">>) @@
    (\b0001011010000000 :> <<"MEMORY", "SIZ">>) @@
    (\b0001011100000000 :> <<"MEMORY", "SDZA">>) @@
    (\b0001011110000000 :> <<"MEMORY", "SDZ">>) @@
    (\b0001100000000000 :> <<"MEMORY", "RLA">>) @@
    (\b0001100010000000 :> <<"MEMORY", "RL">>) @@
    (\b0001100100000000 :> <<"MEMORY", "RRA">>) @@
    (\b0001100110000000 :> <<"MEMORY", "RR">>) @@
    (\b0001101000000000 :> <<"MEMORY", "RLCA">>) @@
    (\b0001101010000000 :> <<"MEMORY", "RLC">>) @@
    (\b0001101100000000 :> <<"MEMORY", "RRCA">>) @@
    (\b0001101110000000 :> <<"MEMORY", "RRC">>) @@
    (\b0001110100000000 :> <<"MEMORY", "TABRDC">>) @@
    (\b0001110110000000 :> <<"MEMORY", "TABRDL">>) @@
    (\b0001111010000000 :> <<"MEMORY", "DAA">>) @@
    (\b0001111100000000 :> <<"MEMORY", "CLR">>) @@
    (\b0001111110000000 :> <<"MEMORY", "SET">>)

\* The lookup in a table that lacks the MOV entry of _M2A_OPCODES.
GetOtherWithoutMov(key) ==
    IF key \in DOMAIN OTHER_OPCODES /\ key # M2A_MARK
        THEN <<Some(OTHER_OPCODES[key][1]), Some(OTHER_OPCODES[key][2])>>
        ELSE <<None, None>>

\* _OTHER_OPCODES.get(opcode_word, (None, None))
GetOther(key) ==
    IF key \in DOMAIN OTHER_OPCODES
        THEN <<Some(OTHER_OPCODES[key][1]), Some(OTHER_OPCODES[key][2])>>
        ELSE <<None, None>>

\* ---------------------------------------------------------------- memory map

\* Index i + 1 of the sequence is index i of the Python list; the rows are
\* those the comments of the source mark (00H, 10H, ... 50H).
MEMORY_MAP == <<
    Some("IAR0"), Some("MP0"), Some("IAR1"), Some("MP1"), Some("BP"),
    Some("ACC"), Some("PCL"), Some("TBLP"), Some("TBLH"), Some("TBHP"),
    Some("STATUS"), Some("SMOD"), Some("CTRL"), Some("INTEG"), Some("INTC0"),
    Some("INTC1"),
    None, None, None, Some("LVRC"), Some("PA"), Some("PAC"), Some("PAPU"),
    Some("PAWU"), None, None, Some("WDTC"), Some("TBC"), Some("TMR"),
    Some("TMRC"), Some("EEA"), Some("EED"), Some("PB"),
    Some("PBC"), Some("PBPU"), Some("I2CTOC"), Some("SIMC0"), Some("SIMC1"),
    Some("SIMD"), Some("SIMC2"), None, None, None, None, None, None, None,
    None, None,
    None, None, None, None, None, None, None, None, None, None, None, None,
    None, None, None, None,
    None, None, None, Some("TKTMR"), Some("TKC0"), Some("TK16DL"),
    Some("TK16DH"), Some("TKC1"), Some("TKM016DL"), Some("TKM016DH"),
    Some("TKM0ROL"), Some("TKM0ROH"), Some("TKM0C0"), Some("TKM0C1"),
    Some("TKM116DL"), Some("TKM116DH"),
    Some("TKM1ROL"), Some("TKM1ROH"), Some("TKM1C0"), Some("TKM1C1"), None,
    None, None, None, None, None, None, None, None, None, None, None
>>

\* ----------------------------------------------------------------- formatting

HexChar == <<"0", "1", "2", "3", "4", "5", "6", "7", "8", "9", "A", "B", "C", "D", "E", "F">>

\* The digits of n in the given base, most significant first, without padding.
RECURSIVE Digits(_, _)
Digits(n, base) ==
    IF n < base THEN HexChar[n + 1]
    ELSE Digits(n \div base, base) \o HexChar[(n % base) + 1]

\* Left padding with zeros up to width characters ('%04X', '%02X', zfill).
RECURSIVE ZeroFill(_, _)
ZeroFill(s, width) == IF Len(s) >= width THEN s ELSE ZeroFill("0" \o s, width)

\* '%0<width>X' % n: the sign of a negative number counts in the width.
Hex(n, width) ==
    IF n < 0
        THEN "-" \o ZeroFill(Digits(-n, 16), width - 1)
        ELSE ZeroFill(Digits(n, 16), width)

\* bin(n)[2:].zfill(width)
Bin(n, width) == ZeroFill(Digits(n, 2), width)

\* '%d' % n, for n >= 0
Dec(n) == Digits(n, 10)

\* 'label%04X' % counter
LabelName(counter) == "label" \o Hex(counter, 4)

\* --------------------------------------------------------------- Instruction

get_data_address(word) ==
    BitAnd(word, 127) + (IF BitAnd(word, 2 ^ 14) # 0 THEN 128 ELSE 0)

get_bit(word) == BitAnd(ShiftRight(word, 7), 7)

\* str.strip(): the string without its leading and trailing white space.  The
\* white space is every character c with c.isspace() that a string of this
\* language can hold: space, tab, line feed, carriage return, form feed, and,
\* written as the characters themselves, U+000B, U+001C, U+001D, U+001E,
\* U+001F, U+0085, U+00A0 and U+1680.  (The other white space of Python,
\* U+2000-200A, U+2028, U+2029, U+202F, U+205F and U+3000, cannot occur in a
\* string here.)
WhiteSpace ==
    {" ", "\t", "\n", "\r", "\f",
     "", "", "", "", "", "", " ", " "}

RECURSIVE LStrip(_)
LStrip(s) == IF Len(s) > 0 /\ Head(s) \in WhiteSpace THEN LStrip(Tail(s)) ELSE s

RECURSIVE RStrip(_)
RStrip(s) ==
    IF Len(s) > 0 /\ SubSeq(s, Len(s), Len(s)) \in WhiteSpace
        THEN RStrip(SubSeq(s, 1, Len(s) - 1))
        ELSE s

Strip(s) == RStrip(LStrip(s))

\* The checks of Instruction.__init__ that raise (lines 46-47, 71-72, 79-80),
\* on the address, on the name as lines 75-77 left it (self.name) and on the
\* format: the message of the first exception raised, or "none".
ConstructionFaultOffByOne(address, name, opcode_type) ==
    IF address < CODE_ADDRESS_START \/ address >= CODE_ADDRESS_END
        THEN "Address 0x" \o Hex(address, 4) \o " out of range"
    ELSE IF opcode_type \notin Format
        THEN "Invalid or unrecognised opcode format"
    ELSE IF opcode_type # "INVALID" /\ ~Truthy(name)
        THEN "Invalid or missing opcode name"
    ELSE "none"

ConstructionFault(address, name, opcode_type) ==
    IF address < CODE_ADDRESS_START \/ address > CODE_ADDRESS_END
        THEN "Address 0x" \o Hex(address, 4) \o " out of range"
    ELSE IF opcode_type \notin Format
        THEN "Invalid or unrecognised opcode format"
    ELSE IF opcode_type # "INVALID" /\ ~Truthy(name)
        THEN "Invalid or missing opcode name"
    ELSE "none"

\* Instruction.__init__.  opcode_name is a string or None; the name kept is
\* None, or the stripped opcode_name when that is neither None nor ''.
Instruction(address, opcode_name, opcode_type, word) ==
    LET first ==
            CASE opcode_type \in {"M2A", "A2M", "BIT", "MEMORY"} -> get_data_address(word)
              [] opcode_type = "LITERAL" -> BitAnd(word, 255)
              [] opcode_type = "ADDRESS" -> BitAnd(word, 2047)
              [] OTHER -> NoOperand
        second == IF opcode_type = "BIT" THEN get_bit(word) ELSE NoOperand
        name == IF Truthy(opcode_name) THEN Some(Strip(opcode_name[1])) ELSE None
    IN  [address |-> address, word |-> word, first |-> first, second |-> second,
         type |-> opcode_type, name |-> name,
         fault |-> ConstructionFault(address, name, opcode_type)]

\* ------------------------------------------------------------------- decoder

\* _decode_word with the Literal group tested before the Other table.
DecodeStepLiteralFirst(word) ==
    IF BitAnd(word, SPECIAL_MASK) = SPECIAL_MARK
       /\ Truthy(Get(SPECIAL_OPCODES, BitAnd(word, SPECIAL_LIST)))
        THEN 1
    ELSE IF BitAnd(word, BIT_MASK) = BIT_MARK
       /\ Truthy(Get(BIT_OPCODES, BitAnd(word, BIT_LIST)))
        THEN 2
    ELSE IF BitAnd(word, ADDRESS_MASK) = ADDRESS_MARK
       /\ Truthy(Get(ADDRESS_OPCODES, BitAnd(word, ADDRESS_LIST)))
        THEN 3
    ELSE IF BitAnd(word, LITERAL_MASK) = LITERAL_MARK
       /\ Truthy(Get(LITERAL_OPCODES, BitAnd(word, LITERAL_LIST)))
        THEN 5
    ELSE IF GetOther(BitAnd(word, OTHER_OPCODES_MASK))[1] # None
       /\ GetOther(BitAnd(word, OTHER_OPCODES_MASK))[2] # None
        THEN 4
    ELSE IF BitAnd(word, M2A_MASK) = M2A_MARK
       /\ Truthy(Get(M2A_OPCODES, BitAnd(word, M2A_LIST)))
        THEN 6
    ELSE 7

\* The control flow of _decode_word: the number of the group whose return
\* statement is executed (1 Special, 2 Bit, 3 Address, 4 Other, 5 Literal,
\* 6 M2A), or 7 for the final return of an INVALID instruction.
DecodeStep(word) ==
    IF BitAnd(word, SPECIAL_MASK) = SPECIAL_MARK
       /\ Truthy(Get(SPECIAL_OPCODES, BitAnd(word, SPECIAL_LIST)))
        THEN 1
    ELSE IF BitAnd(word, BIT_MASK) = BIT_MARK
       /\ Truthy(Get(BIT_OPCODES, BitAnd(word, BIT_LIST)))
        THEN 2
    ELSE IF BitAnd(word, ADDRESS_MASK) = ADDRESS_MARK
       /\ Truthy(Get(ADDRESS_OPCODES, BitAnd(word, ADDRESS_LIST)))
        THEN 3
    ELSE IF GetOther(BitAnd(word, OTHER_OPCODES_MASK))[1] # None
       /\ GetOther(BitAnd(word, OTHER_OPCODES_MASK))[2] # None
        THEN 4
    ELSE IF BitAnd(word, LITERAL_MASK) = LITERAL_MARK
       /\ Truthy(Get(LITERAL_OPCODES, BitAnd(word, LITERAL_LIST)))
        THEN 5
    ELSE IF BitAnd(word, M2A_MASK) = M2A_MARK
       /\ Truthy(Get(M2A_OPCODES, BitAnd(word, M2A_LIST)))
        THEN 6
    ELSE 7

\* _decode_word(self, address, word)
decode_word(address, word) ==
    LET step == DecodeStep(word)
    IN  CASE step = 1 ->
               Instruction(address, Get(SPECIAL_OPCODES, BitAnd(word, SPECIAL_LIST)), "SPECIAL", word)
          [] step = 2 ->
               Instruction(address, Get(BIT_OPCODES, BitAnd(word, BIT_LIST)), "BIT", word)
          [] step = 3 ->
               Instruction(address, Get(ADDRESS_OPCODES, BitAnd(word, ADDRESS_LIST)), "ADDRESS", word)
          [] step = 4 ->
               Instruction(address, GetOther(BitAnd(word, OTHER_OPCODES_MASK))[2],
                           GetOther(BitAnd(word, OTHER_OPCODES_MASK))[1][1], word)
          [] step = 5 ->
               Instruction(address, Get(LITERAL_OPCODES, BitAnd(word, LITERAL_LIST)), "LITERAL", word)
          [] step = 6 ->
               Instruction(address, Get(M2A_OPCODES, BitAnd(word, M2A_LIST)), "M2A", word)
          [] OTHER ->
               Instruction(address, None, "INVALID", word)

\* The comprehension with the two values handed over in the other order.
DecodeAtSwapped(index, value) == decode_word(value, index)

\* One iteration of the comprehension of Disassembler.__init__:
\*     self._decode_word(word, address) for (word, address) in enumerate(self._words)
\* enumerate yields (index, value), so the loop variable called word holds the
\* index and the one called address holds the value; _decode_word(address, word)
\* receives them positionally, the index as its address and the value as its word.
DecodeAt(index, value) ==
    LET word == index
        address == value
    IN  decode_word(word, address)

\* ------------------------------------------------------- memory location lookup

\* The test `location < len(Disassembler._MEMORY_MAP)` of _lookup_memory_location.
InMemoryMap(location) == location < Len(MEMORY_MAP)

\* _lookup_memory_location(self, location)
lookup_memory_location(location) ==
    IF location < 0 THEN "Exception: Invalid memory location"
    ELSE LET result == IF InMemoryMap(location) THEN MEMORY_MAP[location + 1] ELSE None
         IN  IF ~Truthy(result)
                THEN "[0" \o Hex(location, 2) \o "h]"
                ELSE result[1]

\* ------------------------------------------------------------------ label pass

EmptyLabels == [a \in {} |-> ""]

\* The loop of _assign_labels from the i-th instruction on, with the counter and
\* the table as they stand.
RECURSIVE AssignFrom(_, _, _, _)
AssignFrom(instrs, i, counter, table) ==
    IF i > Len(instrs) THEN table
    ELSE IF instrs[i].type = "ADDRESS" /\ instrs[i].first \notin DOMAIN table
        THEN AssignFrom(instrs, i + 1, counter + 1,
                        table @@ (instrs[i].first :> LabelName(counter)))
        ELSE AssignFrom(instrs, i + 1, counter, table)

\* A label pass that knows only the targets already passed (a pass run while
\* decoding): forward references get no label.
RECURSIVE AssignBackwardFrom(_, _, _, _)
AssignBackwardFrom(instrs, i, counter, table) ==
    IF i > Len(instrs) THEN table
    ELSE IF /\ instrs[i].type = "ADDRESS"
            /\ instrs[i].first \notin DOMAIN table
            /\ instrs[i].first <= instrs[i].address
        THEN AssignBackwardFrom(instrs, i + 1, counter + 1,
                                table @@ (instrs[i].first :> LabelName(counter)))
        ELSE AssignBackwardFrom(instrs, i + 1, counter, table)

assign_labels_backward_only(instrs, table) == AssignBackwardFrom(instrs, 1, 0, table)

\* A label pass whose counter advances on every ADDRESS instruction, a repeated
\* target included.
RECURSIVE AssignCountingFrom(_, _, _, _)
AssignCountingFrom(instrs, i, counter, table) ==
    IF i > Len(instrs) THEN table
    ELSE IF instrs[i].type # "ADDRESS"
        THEN AssignCountingFrom(instrs, i + 1, counter, table)
    ELSE IF instrs[i].first \in DOMAIN table
        THEN AssignCountingFrom(instrs, i + 1, counter + 1, table)
        ELSE AssignCountingFrom(instrs, i + 1, counter + 1,
                                table @@ (instrs[i].first :> LabelName(counter)))

assign_labels_counting_repeats(instrs, table) == AssignCountingFrom(instrs, 1, 0, table)

\* A label pass that overwrites the entry of every target and whose counter
\* goes on from the size of the table it finds.
RECURSIVE AssignOverwritingFrom(_, _, _, _)
AssignOverwritingFrom(instrs, i, counter, table) ==
    IF i > Len(instrs) THEN table
    ELSE IF instrs[i].type = "ADDRESS"
        THEN AssignOverwritingFrom(instrs, i + 1, counter + 1,
                                   (instrs[i].first :> LabelName(counter)) @@ table)
        ELSE AssignOverwritingFrom(instrs, i + 1, counter, table)

assign_labels_persistent_counter(instrs, table) ==
    AssignOverwritingFrom(instrs, 1, Cardinality(DOMAIN table), table)

\* _assign_labels(self), on self._instructions and self._labels
assign_labels(instrs, table) == AssignFrom(instrs, 1, 0, table)

\* An __init__ that runs the label pass whatever the flag says.
init_labels_always(instrs, enabled) == assign_labels(instrs, EmptyLabels)

\* Lines 100-103 of Disassembler.__init__: the table starts empty and the label
\* pass runs only when labels are enabled.
init_labels(instrs, enabled) ==
    IF enabled THEN assign_labels(instrs, EmptyLabels) ELSE EmptyLabels

\* ------------------------------------------------------------------- formatter

\* '\n%s:\n\n' % self._labels[address]: an empty line, the label and a colon,
\* an empty line.
LabelHeader(address, table) ==
    IF address \in DOMAIN table
        THEN << <<"">>, <<table[address] \o ":">>, <<"">> >>
        ELSE << >>

\* The operand text of an ADDRESS instruction (lines 328-329).  A target missing
\* from the table with labels enabled is Python's KeyError.
AddressTarget(instruction, table, enabled) ==
    IF enabled
        THEN IF instruction.first \in DOMAIN table
                THEN table[instruction.first]
                ELSE "KeyError"
        ELSE "0" \o Hex(instruction.first, 4) \o "h"

\* The text '%s' gives a name; every instruction the constructor returns with
\* a format other than INVALID has one.
NameText(name) == IF name = None THEN "None" ELSE name[1]

\* The instruction line of _format_instruction (lines 314-342): the sequence of
\* its tab-separated fields.
InstructionLine(address, instruction, table, enabled) ==
    LET name == NameText(instruction.name)
        prefix == <<Hex(address, 4), Hex(instruction.word, 4)>>
        target == lookup_memory_location(instruction.first)
        body ==
            CASE instruction.type = "SPECIAL" -> <<name>>
              [] instruction.type = "M2A" -> <<name, target \o ", A">>
              [] instruction.type = "A2M" -> <<name, "A, " \o target>>
              [] instruction.type = "LITERAL" ->
                    <<name, "A, 0" \o Hex(instruction.first, 2) \o "h">>
              [] instruction.type = "ADDRESS" ->
                    <<name, AddressTarget(instruction, table, enabled)>>
              [] instruction.type = "BIT" ->
                    <<name, target \o "." \o Dec(instruction.second)>>
              [] instruction.type = "MEMORY" -> <<name, target>>
              [] OTHER -> <<"; (" \o Bin(instruction.word, 16) \o ") Invalid opcode">>
    IN  prefix \o body

\* A formatter that writes the label header after the instruction line.
format_instruction_header_last(address, instruction, table, enabled) ==
    <<InstructionLine(address, instruction, table, enabled)>> \o LabelHeader(address, table)

\* _format_instruction(self, address, instruction): the lines written.
format_instruction(address, instruction, table, enabled) ==
    LabelHeader(address, table) \o <<InstructionLine(address, instruction, table, enabled)>>

\* ----------------------------------------------------------------------- state

\* Bounds of the disassembly runs explored.
MaxLen == 3
MaxReruns == 1

\* The words a program is drawn from: NOP, CALL 0, JMP 2, JMP 7FFh, SET ACC.1,
\* MOV A, 012h, MOV ACC, A and an invalid word.
ProgramWords == {0, 8192, 10242, 12287, 12421, 3858, 133, 32768}

RECURSIVE SeqsUpTo(_, _)
SeqsUpTo(S, n) ==
    IF n = 0 THEN {<< >>}
    ELSE LET shorter == SeqsUpTo(S, n - 1)
         IN  shorter \cup {Append(s, x) : s \in {t \in shorter : Len(t) = n - 1}, x \in S}

VARIABLES
    words,          \* self._words
    has_labels,     \* self._has_labels
    instructions,   \* self._instructions
    labels,         \* self._labels
    output,         \* the text written by generate_output, line by line
    pos,            \* the number of instructions generate_output has formatted
    runs,           \* the number of runs of _assign_labels
    pc,             \* "decode", "ready", "output", "done", "error", or "idle"
    dIndex,         \* single-word decoding: the index of the word
    dValue,         \* single-word decoding: the word
    dResult,        \* single-word decoding: the Instruction decoded
    dTarget,        \* single-word decoding: the memory location text
    dpc             \* "start", "decoded", "looked", or "idle"

vars == <<words, has_labels, instructions, labels, output, pos, runs, pc,
          dIndex, dValue, dResult, dTarget, dpc>>

pvars == <<words, has_labels, instructions, labels, output, pos, runs, pc>>
dvars == <<dIndex, dValue, dResult, dTarget, dpc>>

NoInstruction == Instruction(0, None, "INVALID", 0)

PIdle == /\ words = << >>
         /\ has_labels = FALSE
         /\ instructions = << >>
         /\ labels = EmptyLabels
         /\ output = << >>
         /\ pos = 0
         /\ runs = 0
         /\ pc = "idle"

DIdle == /\ dIndex = 0
         /\ dValue = 0
         /\ dResult = NoInstruction
         /\ dTarget = None
         /\ dpc = "idle"

\* ------------------------------------------------------- the disassembly run

\* The state as Disassembler.__init__ finds it: a loaded, non-empty sequence of
\* words (the loader rejects an empty file) and the labels flag.
Init ==
    /\ words \in SeqsUpTo(ProgramWords, MaxLen) \ {<< >>}
    /\ has_labels \in BOOLEAN
    /\ instructions = << >>
    /\ labels = EmptyLabels
    /\ output = << >>
    /\ pos = 0
    /\ runs = 0
    /\ pc = "decode"
    /\ DIdle

\* One iteration of the comprehension of __init__ (lines 97-98); an exception of
\* the Instruction constructor ends the construction.
DecodeWord ==
    /\ pc = "decode"
    /\ Len(instructions) < Len(words)
    /\ LET instruction == DecodeAt(Len(instructions), words[Len(instructions) + 1])
       IN  IF instruction.fault = "none"
              THEN /\ instructions' = Append(instructions, instruction)
                   /\ pc' = pc
              ELSE /\ instructions' = instructions
                   /\ pc' = "error"
    /\ UNCHANGED <<words, has_labels, labels, output, pos, runs>>
    /\ UNCHANGED dvars

\* The rest of __init__ (lines 100-103).
FinishInit ==
    /\ pc = "decode"
    /\ Len(instructions) = Len(words)
    /\ labels' = init_labels(instructions, has_labels)
    /\ runs' = IF has_labels THEN 1 ELSE 0
    /\ pc' = "ready"
    /\ UNCHANGED <<words, has_labels, instructions, output, pos>>
    /\ UNCHANGED dvars

\* A further call of _assign_labels on the constructed object.
AssignLabelsAgain ==
    /\ pc = "ready"
    /\ has_labels
    /\ runs < 1 + MaxReruns
    /\ labels' = assign_labels(instructions, labels)
    /\ runs' = runs + 1
    /\ UNCHANGED <<words, has_labels, instructions, output, pos, pc>>
    /\ UNCHANGED dvars

\* One iteration of the loop of generate_output (lines 107-109).
FormatNext ==
    /\ pc \in {"ready", "output"}
    /\ pos < Len(instructions)
    /\ output' = output \o format_instruction(pos, instructions[pos + 1], labels, has_labels)
    /\ pos' = pos + 1
    /\ pc' = IF pos + 1 = Len(instructions) THEN "done" ELSE "output"
    /\ UNCHANGED <<words, has_labels, instructions, labels, runs>>
    /\ UNCHANGED dvars

Next == DecodeWord \/ FinishInit \/ AssignLabelsAgain \/ FormatNext

Spec == Init /\ [][Next]_vars

\* ------------------------------------------- decoding and rendering one word

\* Every 16-bit word, at the first and at the last index a loaded file can
\* have (CODE_FILE_MAX_SIZE bytes are CODE_ADDRESS_END + 1 words).
DInit ==
    /\ dIndex \in {CODE_ADDRESS_START, CODE_FILE_MAX_SIZE \div 2 - 1}
    /\ dValue \in Words
    /\ dResult = NoInstruction
    /\ dTarget = None
    /\ dpc = "start"
    /\ PIdle

\* One iteration of the comprehension of __init__ on the word dValue at dIndex.
DDecode ==
    /\ dpc = "start"
    /\ dResult' = DecodeAt(dIndex, dValue)
    /\ dpc' = "decoded"
    /\ UNCHANGED <<dIndex, dValue, dTarget>>
    /\ UNCHANGED pvars

\* The call of _lookup_memory_location that _format_instruction makes for the
\* formats with a memory operand.
DLookup ==
    /\ dpc = "decoded"
    /\ dResult.fault = "none"
    /\ dResult.type \in {"M2A", "A2M", "BIT", "MEMORY"}
    /\ dTarget' = lookup_memory_location(dResult.first)
    /\ dpc' = "looked"
    /\ UNCHANGED <<dIndex, dValue, dResult>>
    /\ UNCHANGED pvars

DNext == DDecode \/ DLookup

SpecDecode == DInit /\ [][DNext]_vars
\* ================================================================== properties

\* --- single-word decoding (SpecDecode)

Decoded == dpc \in {"decoded", "looked"}

\* The groups of the decoder whose mask/mark test the word passes and whose
\* sub-table holds the key looked up, numbered in the order Special, Bit,
\* Address, Other, Literal, M2A.
MatchingGroups(w) ==
    {g \in 1 .. 6 :
        CASE g = 1 -> BitAnd(w, \hFFF8) = 0 /\ BitAnd(w, 7) \in DOMAIN SPECIAL_OPCODES
          [] g = 2 -> BitAnd(w, \hB000) = \h3000 /\ BitAnd(w, \h3C00) \in DOMAIN BIT_OPCODES
          [] g = 3 -> BitAnd(w, \hF000) = \h2000 /\ BitAnd(w, \hF800) \in DOMAIN ADDRESS_OPCODES
          [] g = 4 -> BitAnd(w, \h9F80) \in DOMAIN OTHER_OPCODES
          [] g = 5 -> BitAnd(w, \h8800) = \h0800 /\ BitAnd(w, \h0F00) \in DOMAIN LITERAL_OPCODES
          [] g = 6 -> BitAnd(w, \h9F80) = \h0080}

FirstGroup(w) == CHOOSE g \in MatchingGroups(w) : \A h \in MatchingGroups(w) : g <= h

\* The format and the mnemonic group g gives the word w.
GroupResult(g, w) ==
    CASE g = 1 -> <<"SPECIAL", SPECIAL_OPCODES[BitAnd(w, 7)]>>
      [] g = 2 -> <<"BIT", BIT_OPCODES[BitAnd(w, \h3C00)]>>
      [] g = 3 -> <<"ADDRESS", ADDRESS_OPCODES[BitAnd(w, \hF800)]>>
      [] g = 4 -> OTHER_OPCODES[BitAnd(w, \h9F80)]
      [] g = 5 -> <<"LITERAL", LITERAL_OPCODES[BitAnd(w, \h0F00)]>>
      [] g = 6 -> <<"M2A", "MOV">>

\* C1: for every 16-bit word and every address of the code range the decoder
\* returns an Instruction without raising (neither the address fault nor the
\* missing-name fault nor the format fault), its format is one of the 8
\* formats, and a word matched by no group is INVALID.
C1_DecodeTotal ==
    Decoded =>
        /\ dResult.fault = "none"
        /\ dResult.type \in Format
        /\ Cardinality(Format) = 8
        /\ dResult.word = dValue
        /\ (MatchingGroups(dValue) = {}) => dResult.type = "INVALID"

\* C1 witness: a word matched by no group, decoded at the last address of the
\* code range.
C1_Witness ==
    /\ dpc = "decoded"
    /\ dIndex = CODE_ADDRESS_END
    /\ MatchingGroups(dValue) = {}
    /\ dResult.type = "INVALID"
    /\ dResult.fault = "none"

\* C2: the decoder returns the result of the first matching group in the order
\* Special, Bit, Address, Other, Literal, M2A: every word with
\* w & B000h = 3000h is BIT, every word with w & F000h = 2000h is ADDRESS, and
\* every other word whose w & 9F80h is a key of the Other table gets that
\* table's format and mnemonic, also when it passes the Literal test.
C2_FirstMatchWins ==
    Decoded =>
        /\ (MatchingGroups(dValue) # {}) =>
              <<dResult.type, dResult.name>> =
                 <<GroupResult(FirstGroup(dValue), dValue)[1],
                   Some(GroupResult(FirstGroup(dValue), dValue)[2])>>
        /\ (BitAnd(dValue, \hB000) = \h3000) => dResult.type = "BIT"
        /\ (BitAnd(dValue, \hF000) = \h2000) => dResult.type = "ADDRESS"
        /\ ( /\ BitAnd(dValue, \hB000) # \h3000
             /\ BitAnd(dValue, \hF000) # \h2000
             /\ BitAnd(dValue, \h9F80) \in DOMAIN OTHER_OPCODES )
              => /\ dResult.type = OTHER_OPCODES[BitAnd(dValue, \h9F80)][1]
                 /\ dResult.name = Some(OTHER_OPCODES[BitAnd(dValue, \h9F80)][2])

\* C2 witness: a word in the Other table that also passes the Literal test with
\* a key of the Literal table (1900h: RRA, not the literal RET), decoded by the
\* Other table.
C2_Witness ==
    /\ dpc = "decoded"
    /\ 4 \in MatchingGroups(dValue)
    /\ 5 \in MatchingGroups(dValue)
    /\ dResult.type = OTHER_OPCODES[BitAnd(dValue, \h9F80)][1]
    /\ dResult.name = Some(OTHER_OPCODES[BitAnd(dValue, \h9F80)][2])
    /\ dResult.type = "MEMORY"

\* C8: format and operands are coupled in every decoded Instruction: operand2
\* is set exactly for BIT and is then (w >> 7) & 7, operand1 is unset exactly
\* for SPECIAL and INVALID, the mnemonic is absent exactly for INVALID, and the
\* address is the index of the word.
C8_FormatOperandCoupling ==
    Decoded =>
        /\ (dResult.second # NoOperand) <=> (dResult.type = "BIT")
        /\ (dResult.type = "BIT") => dResult.second = (dValue \div 128) % 8
        /\ (dResult.first = NoOperand) <=> (dResult.type \in {"SPECIAL", "INVALID"})
        /\ (dResult.name = None) <=> (dResult.type = "INVALID")
        /\ dResult.address = dIndex

\* C8 witness: a BIT instruction with bit index 7, decoded at the last address.
C8_Witness ==
    /\ dpc = "decoded"
    /\ dIndex = CODE_ADDRESS_END
    /\ dResult.type = "BIT"
    /\ dResult.second = 7
    /\ dResult.first # NoOperand

\* _decode_word with its sixth group (the M2A fallback) removed.
decode_word_without_m2a(address, word) ==
    IF DecodeStep(word) = 6
        THEN Instruction(address, None, "INVALID", word)
        ELSE decode_word(address, word)

\* C10: the M2A fallback never returns: every word with w & 9F80h = 0080h is
\* returned by an earlier group, and the decoder without the sixth group gives
\* every word the same Instruction.
C10_M2AFallbackDead ==
    Decoded =>
        /\ DecodeStep(dValue) # 6
        /\ (BitAnd(dValue, \h9F80) = \h0080) => DecodeStep(dValue) \in 1 .. 4
        /\ dResult = decode_word_without_m2a(dIndex, dValue)

\* C10 witness: a word with w & 9F80h = 0080h returned by the Other table as
\* M2A MOV.
C10_Witness ==
    /\ dpc = "decoded"
    /\ BitAnd(dValue, \h9F80) = \h0080
    /\ DecodeStep(dValue) = 4
    /\ dResult.type = "M2A"
    /\ dResult.name = Some("MOV")

\* The numeric form of a memory location, [0<hex2>h].
NumericLocation(location) == "[0" \o Hex(location, 2) \o "h]"

\* C9, as claimed: the Memory Map covers the addresses 0 to 5Fh, so that 60h is
\* out of its bounds; a location renders as its name when it lies in the table
\* and has one, and as [0<hex2>h] otherwise (00h IAR0, 10h [010h], 60h [060h]).
C9_LookupAsClaimed ==
    (dpc = "looked") =>
        LET location == dResult.first
        IN  /\ InMemoryMap(location) <=> (location <= 95)
            /\ dTarget = IF location <= 95 /\ MEMORY_MAP[location + 1] # None
                            THEN MEMORY_MAP[location + 1][1]
                            ELSE NumericLocation(location)
            /\ (location = 0) => dTarget = "IAR0"
            /\ (location = 16) => dTarget = "[010h]"
            /\ (location = 96) => dTarget = "[060h]"

\* --- the disassembly run (Spec)

Constructed == pc \in {"ready", "output", "done"}

ProgramAddresses == 0 .. (Len(instructions) - 1)

AddressInstructions == {i \in 1 .. Len(instructions) : instructions[i].type = "ADDRESS"}

Targets == {instructions[i].first : i \in AddressInstructions}

\* C3: after the label pass the keys of the label table are exactly the targets
\* of the ADDRESS instructions of the program, referenced forward or backward.
C3_LabelKeysAreTargets ==
    (Constructed /\ has_labels) =>
        /\ DOMAIN labels = Targets
        /\ \A i \in AddressInstructions :
              instructions[i].first = words[i] % 2048

\* C3 witness: a program with a forward reference, a backward reference and an
\* address that is no target, after the label pass.
C3_Witness ==
    /\ pc = "ready"
    /\ has_labels
    /\ \E i \in AddressInstructions : instructions[i].first > instructions[i].address
    /\ \E i \in AddressInstructions : instructions[i].first < instructions[i].address
    /\ \E a \in ProgramAddresses : a \notin DOMAIN labels
    /\ DOMAIN labels = Targets

\* The index of the first instruction that refers to the target t.
FirstReference(t) ==
    CHOOSE i \in AddressInstructions :
        /\ instructions[i].first = t
        /\ \A j \in AddressInstructions : instructions[j].first = t => i <= j

\* The number of distinct targets first referred to before t is.
Rank(t) == Cardinality({u \in Targets : FirstReference(u) < FirstReference(t)})

\* C4: labels are numbered from 0 in the order in which the distinct targets
\* are first met scanning from address 0: the label of a target is label<n>
\* with n the number of distinct targets first referenced before it, so that
\* distinct targets have distinct labels, a repeated target takes no index and
\* the indices used are exactly 0 .. n-1.
C4_LabelsInFirstReferenceOrder ==
    (Constructed /\ has_labels) =>
        /\ \A t \in Targets : t \in DOMAIN labels /\ labels[t] = LabelName(Rank(t))
        /\ \A t, u \in DOMAIN labels : t # u => labels[t] # labels[u]
        /\ {labels[t] : t \in DOMAIN labels}
              = {LabelName(n) : n \in 0 .. (Cardinality(Targets) - 1)}

\* C4 witness: two distinct targets, the higher one referenced first, and one
\* of them referenced twice.
C4_Witness ==
    /\ pc = "ready"
    /\ has_labels
    /\ \E t, u \in Targets :
          /\ t > u
          /\ FirstReference(t) < FirstReference(u)
          /\ labels[t] = "label0000"
          /\ labels[u] = "label0001"
    /\ Cardinality(AddressInstructions) > Cardinality(Targets)

\* The lines of the output that are instruction lines: the header lines have
\* one field, an instruction line at least three.
InstructionLines == {k \in 1 .. Len(output) : Len(output[k]) >= 3}

LinesOf(a) == {k \in InstructionLines : output[k][1] = Hex(a, 4)}

\* C5: with labels enabled the output has, for each address of the program,
\* the label header (an empty line, the label and a colon, an empty line)
\* right before the instruction line exactly when the address is a key of the
\* label table, and every ADDRESS operand is the label of its target; the
\* program 0000h, 2000h gives the header label0000: before the line of address
\* 0 and CALL label0000 at address 1.
C5_LabelHeadersAndOperands ==
    (pc = "done" /\ has_labels) =>
        /\ \A a \in ProgramAddresses :
              /\ Cardinality(LinesOf(a)) = 1
              /\ \A k \in LinesOf(a) :
                    /\ IF a \in DOMAIN labels
                          THEN /\ k > 3
                               /\ output[k - 3] = <<"">>
                               /\ output[k - 2] = <<labels[a] \o ":">>
                               /\ output[k - 1] = <<"">>
                          ELSE ~(k > 1 /\ Len(output[k - 1]) < 3)
                    /\ (instructions[a + 1].type = "ADDRESS") =>
                          /\ instructions[a + 1].first \in DOMAIN labels
                          /\ output[k][4] = labels[instructions[a + 1].first]
        /\ Len(output) = Len(instructions)
                            + 3 * Cardinality(DOMAIN labels \cap ProgramAddresses)
        /\ (words = <<0, 8192>>) =>
              output = << <<"">>, <<"label0000:">>, <<"">>,
                          <<"0000", "0000", "NOP">>,
                          <<"0001", "2000", "CALL", "label0000">> >>

\* C5 witness: the program 0000h, 2000h formatted with labels enabled.
C5_Witness ==
    /\ pc = "done"
    /\ has_labels
    /\ words = <<0, 8192>>
    /\ Len(output) = 5
    /\ output[5][4] = "label0000"

\* C6: with labels disabled the label pass does not run, the label table stays
\* empty, the output has no label header, and every ADDRESS operand is the
\* literal 0<hex4>h of its target.
C6_LabelsDisabled ==
    (~has_labels /\ pc # "idle") =>
        /\ labels = EmptyLabels
        /\ runs = 0
        /\ \A k \in 1 .. Len(output) : Len(output[k]) >= 3
        /\ (pc = "done") =>
              /\ Len(output) = Len(instructions)
              /\ \A i \in AddressInstructions :
                    output[i][4] = "0" \o Hex(instructions[i].first, 4) \o "h"
              /\ (words = <<0, 8192>>) =>
                    output = << <<"0000", "0000", "NOP">>,
                                <<"0001", "2000", "CALL", "00000h">> >>

\* C6 witness: a program with a JMP to 7FFh formatted with labels disabled.
C6_Witness ==
    /\ pc = "done"
    /\ ~has_labels
    /\ \E i \in AddressInstructions :
          /\ instructions[i].first = 2047
          /\ output[i][4] = "007FFh"

\* C7: the label pass is idempotent: run again on the table it produced it
\* leaves the table as it is, and the table after any number of runs is the
\* one a run on an empty table gives.
C7_AssignLabelsIdempotent ==
    (Constructed /\ has_labels) =>
        /\ assign_labels(instructions, labels) = labels
        /\ labels = assign_labels(instructions, EmptyLabels)

\* C7 witness: the label pass has run twice on a program with two distinct
\* targets.
C7_Witness ==
    /\ pc = "ready"
    /\ has_labels
    /\ runs = 2
    /\ Cardinality(DOMAIN labels) >= 2
====
